---- MODULE Spec2Model ----
(***************************************************************************)
(* The PII redaction / restoration engine of backend/app/redaction.py and  *)
(* the memoising wrapper of backend/app/main.py.                           *)
(*                                                                         *)
(* A text is a sequence of characters, a character a one-element string.   *)
(* Confidence scores and thresholds are integers in units of 10^-7, so     *)
(* that 5000000 is 0.5 and 10000000 is 1.0.                                *)
(***************************************************************************)
EXTENDS Integers, Sequences, FiniteSets, TLC

VARIABLES
    text,                  \* the document submitted for redaction
    _shared_type_mapping,  \* the lazily loaded {raw category: display name} table
    all_entities,          \* what the statistical detector returns for text
    merged,                \* outputs of the merge steps (SpecMerge)
    redaction,             \* the last redact_text call and its result (Spec)
    restoration,           \* the last restore_text call and its outcome (Spec)
    calls,                 \* the concurrent get_cached_redaction callers (SpecConc)
    counters,              \* every token-counter dict alive, by owner (SpecConc)
    REDACTION_CACHE,       \* main.py's TTLCache (SpecConc)
    name_consistency_map,  \* the dict the redactor instance holds (SpecEnh)
    predictions            \* what the model answers for each chunk (SpecChunk)

vars == <<text, _shared_type_mapping, all_entities, merged, redaction,
          restoration, calls, counters, REDACTION_CACHE, name_consistency_map,
          predictions>>

None == "None"

\* a variable that holds no call yet
NoCall == [step |-> None]

-----------------------------------------------------------------------------
(* Bounds of the model.                                                    *)

\* longest detector output drawn for the redact / restore pipeline
MaxEntities == 2
\* longest entity list drawn for the merge steps
MaxMergeEntities == 3

-----------------------------------------------------------------------------
(* Python's str operations, on sequences of characters.                    *)

Min(a, b) == IF a <= b THEN a ELSE b
Max(a, b) == IF a >= b THEN a ELSE b

\* s[a:b] for 0 <= a, 0 <= b: clamped to the string, empty when b <= a
Slice(s, a, b) ==
    LET hi == Min(b, Len(s))
    IN  IF hi <= a THEN <<>> ELSE SubSeq(s, a + 1, hi)

Whitespace == {" ", "\n", "\t", "\r"}

RECURSIVE LStrip(_)
LStrip(s) ==
    IF s # <<>> /\ Head(s) \in Whitespace THEN LStrip(Tail(s)) ELSE s

RECURSIVE RStrip(_)
RStrip(s) ==
    IF s # <<>> /\ s[Len(s)] \in Whitespace
    THEN RStrip(SubSeq(s, 1, Len(s) - 1))
    ELSE s

\* str.strip()
Strip(s) == RStrip(LStrip(s))

\* pat occurs in s at 0-based offset i
MatchAt(s, pat, i) ==
    /\ i + Len(pat) <= Len(s)
    /\ \A k \in 1..Len(pat) : s[i + k] = pat[k]

\* pat in s
Contains(s, pat) == \E i \in 0..Len(s) : MatchAt(s, pat, i)

\* the offsets at which pat occurs in s
Occurrences(s, pat) == {i \in 0..Len(s) : MatchAt(s, pat, i)}

\* str.replace(pat, rep) and re.sub(re.escape(pat), rep, s) for a literal rep:
\* every leftmost non-overlapping occurrence, scanning from offset i
RECURSIVE ReplaceFrom(_, _, _, _)
ReplaceFrom(s, pat, rep, i) ==
    IF i >= Len(s) THEN <<>>
    ELSE IF pat # <<>> /\ MatchAt(s, pat, i)
         THEN rep \o ReplaceFrom(s, pat, rep, i + Len(pat))
         ELSE <<s[i + 1]>> \o ReplaceFrom(s, pat, rep, i + 1)

ReplaceAll(s, pat, rep) == ReplaceFrom(s, pat, rep, 0)

LowerToUpper ==
    [c \in {"a", "b", "c", "d", "e", "f", "g", "h", "i", "j", "k", "l", "m",
            "n", "o", "p", "q", "r", "s", "t", "u", "v", "w", "x", "y", "z"} |->
        CASE c = "a" -> "A" [] c = "b" -> "B" [] c = "c" -> "C" [] c = "d" -> "D"
          [] c = "e" -> "E" [] c = "f" -> "F" [] c = "g" -> "G" [] c = "h" -> "H"
          [] c = "i" -> "I" [] c = "j" -> "J" [] c = "k" -> "K" [] c = "l" -> "L"
          [] c = "m" -> "M" [] c = "n" -> "N" [] c = "o" -> "O" [] c = "p" -> "P"
          [] c = "q" -> "Q" [] c = "r" -> "R" [] c = "s" -> "S" [] c = "t" -> "T"
          [] c = "u" -> "U" [] c = "v" -> "V" [] c = "w" -> "W" [] c = "x" -> "X"
          [] c = "y" -> "Y" [] c = "z" -> "Z"]

\* str.upper()
Upper(s) ==
    [k \in 1..Len(s) |->
        IF s[k] \in DOMAIN LowerToUpper THEN LowerToUpper[s[k]] ELSE s[k]]

Digit == [d \in 0..9 |->
    CASE d = 0 -> "0" [] d = 1 -> "1" [] d = 2 -> "2" [] d = 3 -> "3"
      [] d = 4 -> "4" [] d = 5 -> "5" [] d = 6 -> "6" [] d = 7 -> "7"
      [] d = 8 -> "8" [] d = 9 -> "9"]

AsciiLetters ==
    DOMAIN LowerToUpper \cup {LowerToUpper[c] : c \in DOMAIN LowerToUpper}

Digits == {Digit[d] : d \in 0..9}

AsciiLettersAndDigits == AsciiLetters \cup Digits

\* 'score': 0.9 of a consistency match, in units of 10^-7
ConsistencyScore == 9000000

\* str(n) for n >= 0, as the f-string formats the count
RECURSIVE IntToStr(_)
IntToStr(n) ==
    IF n < 10 THEN <<Digit[n]>> ELSE IntToStr(n \div 10) \o <<Digit[n % 10]>>

-----------------------------------------------------------------------------
(* Entities and the merge steps.                                           *)

Overlap(entity, existing) ==
    entity.start < existing.end /\ entity.end > existing.start

\* index of the first element of filtered that entity overlaps, 0 if none
FirstOverlap(filtered, entity) ==
    LET hits == {i \in 1..Len(filtered) : Overlap(entity, filtered[i])}
    IN  IF hits = {} THEN 0 ELSE CHOOSE i \in hits : \A j \in hits : i <= j

\* one iteration of the merge loop of detect_pii
DetectMergeStep(filtered, entity, txt) ==
    LET i == FirstOverlap(filtered, entity)
    IN  IF i = 0 THEN Append(filtered, entity)
        ELSE LET existing == filtered[i]
                 merged_start == Min(entity.start, existing.start)
                 merged_end == Max(entity.end, existing.end)
             IN  IF entity.type = existing.type
                 THEN [filtered EXCEPT ![i] =
                          [value |-> Slice(txt, merged_start, merged_end),
                           type |-> entity.type,
                           start |-> merged_start,
                           end |-> merged_end,
                           score |-> Max(entity.score, existing.score)]]
                 ELSE IF entity.score > existing.score
                      THEN [filtered EXCEPT ![i] = entity]
                      ELSE filtered

RECURSIVE DetectMergeLoop(_, _, _)
DetectMergeLoop(filtered, rest, txt) ==
    IF rest = <<>> THEN filtered
    ELSE DetectMergeLoop(DetectMergeStep(filtered, Head(rest), txt), Tail(rest), txt)

\* list.sort(key=...) is stable: e goes after every element whose key is not
\* greater than its own
RECURSIVE InsertByStart(_, _)
InsertByStart(sorted, e) ==
    IF sorted = <<>> THEN <<e>>
    ELSE IF e.start < Head(sorted).start THEN <<e>> \o sorted
         ELSE <<Head(sorted)>> \o InsertByStart(Tail(sorted), e)

\* the sort left out
SortByStart_unsorted(s) == s

\* filtered_entities.sort(key=lambda x: x['start'])
RECURSIVE SortByStart(_)
SortByStart(s) ==
    IF s = <<>> THEN <<>>
    ELSE InsertByStart(SortByStart(SubSeq(s, 1, Len(s) - 1)), s[Len(s)])

\* the merge step of detect_pii: the merge loop, then the sort by position
DetectMerge(entities, txt) == SortByStart(DetectMergeLoop(<<>>, entities, txt))

\* the key (x['start'], -x.get('score', 0)) of a orders it before b
KeyLess(a, b) ==
    \/ a.start < b.start
    \/ a.start = b.start /\ a.score > b.score

RECURSIVE InsertByKey(_, _)
InsertByKey(sorted, e) ==
    IF sorted = <<>> THEN <<e>>
    ELSE IF KeyLess(e, Head(sorted)) THEN <<e>> \o sorted
         ELSE <<Head(sorted)>> \o InsertByKey(Tail(sorted), e)

\* sorted(entities, key=lambda x: (x['start'], -x.get('score', 0)))
RECURSIVE SortByStartScore(_)
SortByStartScore(s) ==
    IF s = <<>> THEN <<>>
    ELSE InsertByKey(SortByStartScore(SubSeq(s, 1, Len(s) - 1)), s[Len(s)])

\* one iteration of the loop of _merge_entities
EnhancedMergeStep(acc, entity, txt) ==
    LET i == FirstOverlap(acc, entity)
    IN  IF i = 0 THEN Append(acc, entity)
        ELSE LET existing == acc[i]
                 new_start == Min(entity.start, existing.start)
                 new_end == Max(entity.end, existing.end)
             IN  IF entity.score > existing.score
                 THEN [acc EXCEPT ![i] = entity]
                 ELSE IF entity.type = existing.type
                      THEN [acc EXCEPT ![i] =
                               [existing EXCEPT !.start = new_start,
                                                !.end = new_end,
                                                !.value = Slice(txt, new_start, new_end)]]
                      ELSE acc

RECURSIVE EnhancedMergeLoop(_, _, _)
EnhancedMergeLoop(acc, rest, txt) ==
    IF rest = <<>> THEN acc
    ELSE EnhancedMergeLoop(EnhancedMergeStep(acc, Head(rest), txt), Tail(rest), txt)

\* EnhancedPIIRedactor._merge_entities
_merge_entities(entities, txt) ==
    IF entities = <<>> THEN <<>>
    ELSE EnhancedMergeLoop(<<>>, SortByStartScore(entities), txt)

-----------------------------------------------------------------------------
(* Chunking and the detection of one chunk.                                *)

\* chunk_end of the iteration that starts at token index i (0-based), the
\* text having n tokens
ChunkEnd(i, chunk_size, n) == Min(i + chunk_size, n)

\* the chunk appended by the iteration that starts at token index i; offsets
\* is the offset mapping of the whole text, without special tokens
ChunkAt(txt, offsets, chunk_size, i) ==
    LET chunk_start == i
        chunk_end == ChunkEnd(i, chunk_size, Len(offsets))
        char_start == offsets[chunk_start + 1].start
        char_end == offsets[chunk_end].end
    IN  [chunk_text |-> Slice(txt, char_start, char_end),
         char_start |-> char_start]

NextStart_noOverlap(chunk_end, n, overlap) == chunk_end

NextStart_slow(chunk_end, n, overlap) ==
    IF chunk_end < n THEN chunk_end - overlap - 1 ELSE chunk_end

\* i for the next iteration: back by the overlap, unless the text is used up
NextStart(chunk_end, n, overlap) ==
    IF chunk_end < n THEN chunk_end - overlap ELSE chunk_end

\* the loop of _split_text_into_chunks from token index i on
RECURSIVE SplitFromToken(_, _, _, _, _)
SplitFromToken(txt, offsets, chunk_size, overlap, i) ==
    IF i >= Len(offsets) THEN <<>>
    ELSE <<ChunkAt(txt, offsets, chunk_size, i)>>
             \o SplitFromToken(txt, offsets, chunk_size, overlap,
                               NextStart(ChunkEnd(i, chunk_size, Len(offsets)),
                                         Len(offsets), overlap))

\* PIIRedactor._split_text_into_chunks
_split_text_into_chunks(txt, offsets, chunk_size, overlap) ==
    SplitFromToken(txt, offsets, chunk_size, overlap, 0)

\* the offsets the tokenizer gives the special tokens it adds
SpecialToken == [start |-> 0, end |-> 0]

\* encode_plus(chunk_text, truncation=True, max_length=..., add_special_tokens=
\* True): the tokens of the chunk with offsets relative to the chunk, cut down
\* to max_length - 2 of them, between the two special tokens. A chunk begins
\* and ends at token boundaries and is taken to be cut into the same tokens
\* as the whole text was.
ChunkEncoding(offsets, chunk, max_length) ==
    LET char_end == chunk.char_start + Len(chunk.chunk_text)
        Inside(o) == o.start >= chunk.char_start /\ o.end <= char_end
        inside == SelectSeq(offsets, Inside)
        kept == SubSeq(inside, 1, Min(Len(inside), max_length - 2))
    IN  <<SpecialToken>>
            \o [k \in 1..Len(kept) |->
                   [start |-> kept[k].start - chunk.char_start,
                    end |-> kept[k].end - chunk.char_start]]
            \o <<SpecialToken>>

\* the label of a unit that is no PII
O == <<"O">>

GapText_dropped(chunk_text, chunk_offset, prev_end_abs, start) == <<>>

\* gap_text: the text between the open entity's end and the unit that
\* continues it
GapText(chunk_text, chunk_offset, prev_end_abs, start) ==
    IF start + chunk_offset > prev_end_abs
    THEN Slice(chunk_text, prev_end_abs - chunk_offset, start)
    ELSE <<>>

\* the entity closed: its value stripped
Closed(e) == [e EXCEPT !.value = Strip(e.value)]

\* entities with the open entity, if there is one, closed and appended
Flushed(entities, current) ==
    IF current = <<>> THEN entities ELSE Append(entities, Closed(current[1]))

Continues_anyGap(current, entity_type, abs_start) ==
    current # <<>> /\ current[1].type = entity_type

\* the unit continues the open entity: same type, and it starts no more than
\* one character after the entity's end
Continues(current, entity_type, abs_start) ==
    /\ current # <<>>
    /\ current[1].type = entity_type
    /\ abs_start <= current[1].end + 1

\* one iteration of the loop of _detect_pii_in_chunk, on unit i: encoded is
\* offset_mapping, prediction the label and score of every unit, current the
\* open entity (a list of one) or the empty list
ChunkStep(chunk_text, chunk_offset, encoded, prediction, i, entities, current) ==
    LET start == encoded[i].start
        end == encoded[i].end
        label == prediction[i].label
        entity_text == Slice(chunk_text, start, end)
        entity_type == ReplaceAll(label, <<"I", "-">>, <<>>)
        abs_start == start + chunk_offset
        abs_end == end + chunk_offset
    IN  IF start = end
        THEN [entities |-> entities, current |-> current]
        ELSE IF label = O
        THEN [entities |-> Flushed(entities, current), current |-> <<>>]
        ELSE IF Continues(current, entity_type, abs_start)
        THEN LET prev_end_abs == current[1].end
                 gap_text == GapText(chunk_text, chunk_offset,
                                     prev_end_abs, start)
             IN  [entities |-> entities,
                  current |-> <<[current[1] EXCEPT
                                    !.end = abs_end,
                                    !.value = @ \o gap_text \o entity_text]>>]
        ELSE [entities |-> Flushed(entities, current),
              current |-> <<[value |-> entity_text, type |-> entity_type,
                             start |-> abs_start, end |-> abs_end,
                             score |-> prediction[i].score]>>]

\* the loop from unit i on, and the flush of the last entity after it
RECURSIVE ChunkLoop(_, _, _, _, _, _, _)
ChunkLoop(chunk_text, chunk_offset, encoded, prediction, i, entities, current) ==
    IF i > Len(encoded) THEN Flushed(entities, current)
    ELSE LET r == ChunkStep(chunk_text, chunk_offset, encoded, prediction, i,
                            entities, current)
         IN  ChunkLoop(chunk_text, chunk_offset, encoded, prediction, i + 1,
                       r.entities, r.current)

\* PIIRedactor._detect_pii_in_chunk, prediction being what the model answers
\* for the encoded chunk
_detect_pii_in_chunk(chunk_text, chunk_offset, encoded, prediction) ==
    ChunkLoop(chunk_text, chunk_offset, encoded, prediction, 1, <<>>, <<>>)

-----------------------------------------------------------------------------
(* Token generation.                                                       *)

\* dict.get(key, default) on a dict modelled as a function
Get(dict, key, default) == IF key \in DOMAIN dict THEN dict[key] ELSE default

\* dict[key] = value
Put(dict, key, value) ==
    [k \in DOMAIN dict \cup {key} |-> IF k = key THEN value ELSE dict[k]]

EmptyDict == [k \in {} |-> 0]

\* entity_type.replace('B-', '').replace('I-', '').upper()
CleanType(entity_type) ==
    Upper(ReplaceAll(ReplaceAll(entity_type, <<"B", "-">>, <<>>), <<"I", "-">>, <<>>))

\* self._shared_type_mapping.get(clean_type, clean_type)
DescriptiveType(entity_type) ==
    Get(_shared_type_mapping, CleanType(entity_type), CleanType(entity_type))

\* f"<PII_{descriptive_type}_{count}>"
FormatToken(descriptive_type, count) ==
    <<"<", "P", "I", "I", "_">> \o descriptive_type \o <<"_">>
        \o IntToStr(count) \o <<">">>

\* counting under the raw category instead
CounterKey_raw(entity_type) == CleanType(entity_type)

\* the dict key under which _generate_redaction_token counts an entity type
CounterKey(entity_type) == DescriptiveType(entity_type)

\* PIIRedactor._generate_redaction_token: the token and the counter as it leaves it
_generate_redaction_token(entity_type, token_counter) ==
    LET count == Get(token_counter, CounterKey(entity_type), 0) + 1
    IN  [token |-> FormatToken(DescriptiveType(entity_type), count),
         counter |-> Put(token_counter, CounterKey(entity_type), count)]

-----------------------------------------------------------------------------
(* detect_pii and redact_text.                                             *)

\* [e for e in filtered_entities if e.get('score', 0) >= confidence_threshold]
FilterByThreshold_inverted(entities, confidence_threshold) ==
    LET Keep(e) == e.score <= confidence_threshold
    IN  SelectSeq(entities, Keep)

FilterByThreshold(entities, confidence_threshold) ==
    LET Keep(e) == e.score >= confidence_threshold
    IN  SelectSeq(entities, Keep)

\* the threshold applied to the detector output, before the merge
DetectFiltered_early(detected, txt, confidence_threshold) ==
    DetectMerge(FilterByThreshold(detected, confidence_threshold), txt)

\* detect_pii up to the threshold filter: merge, sort, filter
DetectFiltered(detected, txt, confidence_threshold) ==
    FilterByThreshold(DetectMerge(detected, txt), confidence_threshold)

WithToken(entity, token) ==
    [value |-> entity.value, type |-> entity.type, start |-> entity.start,
     end |-> entity.end, score |-> entity.score, token |-> token]

\* the token loop of detect_pii: entities done so far, and the counter
RECURSIVE AssignTokens(_, _, _)
AssignTokens(done, rest, token_counter) ==
    IF rest = <<>> THEN [entities |-> done, counter |-> token_counter]
    ELSE LET g == _generate_redaction_token(Head(rest).type, token_counter)
         IN  AssignTokens(Append(done, WithToken(Head(rest), g.token)),
                          Tail(rest), g.counter)

\* PIIRedactor.detect_pii, detected being what the chunk detections returned
detect_pii(detected, txt, token_counter, confidence_threshold) ==
    AssignTokens(<<>>, DetectFiltered(detected, txt, confidence_threshold),
                 token_counter).entities

\* the loop building redacted_parts, joined; last_end as the loop carries it
RECURSIVE RedactedParts(_, _, _)
RedactedParts(txt, entities, last_end) ==
    IF entities = <<>> THEN Slice(txt, last_end, Len(txt))
    ELSE Slice(txt, last_end, Head(entities).start) \o Head(entities).token
            \o RedactedParts(txt, Tail(entities), Head(entities).end)

\* the token_mappings list: entities whose value is empty after strip are skipped
RECURSIVE TokenMappings(_)
TokenMappings(entities) ==
    IF entities = <<>> THEN <<>>
    ELSE LET e == Head(entities)
         IN  (IF Strip(e.value) # <<>>
              THEN <<[token |-> e.token, value |-> Strip(e.value), type |-> e.type,
                      start |-> e.start, end |-> e.end]>>
              ELSE <<>>) \o TokenMappings(Tail(entities))

\* the parts joined without the text after the last entity
RECURSIVE RedactedParts_noTail(_, _, _)
RedactedParts_noTail(txt, entities, last_end) ==
    IF entities = <<>> THEN <<>>
    ELSE Slice(txt, last_end, Head(entities).start) \o Head(entities).token
            \o RedactedParts_noTail(txt, Tail(entities), Head(entities).end)

\* redact_text without its early return and without the remaining text
BuildResult_noTail(txt, entities) ==
    [redacted_text |-> RedactedParts_noTail(txt, entities, 0),
     token_mappings |-> TokenMappings(entities)]

\* the rest of redact_text once detect_pii has returned entities
BuildResult(txt, entities) ==
    IF entities = <<>>
    THEN [redacted_text |-> txt, token_mappings |-> <<>>]
    ELSE [redacted_text |-> RedactedParts(txt, entities, 0),
          token_mappings |-> TokenMappings(entities)]

\* PIIRedactor.redact_text, with a token counter of its own
redact_text(detected, txt, confidence_threshold) ==
    BuildResult(txt, detect_pii(detected, txt, EmptyDict, confidence_threshold))

-----------------------------------------------------------------------------
(* The consistency pass of EnhancedPIIRedactor.                            *)

\* str.lower() of one character
LowerChar(c) ==
    IF \E l \in DOMAIN LowerToUpper : LowerToUpper[l] = c
    THEN CHOOSE l \in DOMAIN LowerToUpper : LowerToUpper[l] = c
    ELSE c

\* str.lower()
Lower(s) == [k \in 1..Len(s) |-> LowerChar(s[k])]

\* the characters re's \w matches
WordChars == AsciiLettersAndDigits \cup {"_"}

\* \b at 0-based offset i of s: a word character on exactly one side
WordBoundary(s, i) ==
    LET before == i >= 1 /\ i <= Len(s) /\ s[i] \in WordChars
        after == i < Len(s) /\ s[i + 1] \in WordChars
    IN  before # after

\* rf'\b{re.escape(part)}\b' with re.IGNORECASE matches at offset i
PartMatchAt(s, part, i) ==
    /\ MatchAt(Lower(s), Lower(part), i)
    /\ WordBoundary(s, i)
    /\ WordBoundary(s, i + Len(part))

\* pattern.finditer(text): the matches from offset i on, left to right, none
\* overlapping
RECURSIVE FindIter(_, _, _)
FindIter(s, part, i) ==
    IF i > Len(s) \/ part = <<>> THEN <<>>
    ELSE IF PartMatchAt(s, part, i)
         THEN <<[start |-> i, end |-> i + Len(part),
                 value |-> Slice(s, i, i + Len(part))]>>
                  \o FindIter(s, part, i + Len(part))
         ELSE FindIter(s, part, i + 1)

\* str.split(): the maximal runs of characters that are not whitespace; cur is
\* the run being read
RECURSIVE SplitFrom(_, _)
SplitFrom(s, cur) ==
    IF s = <<>> THEN (IF cur = <<>> THEN <<>> ELSE <<cur>>)
    ELSE IF Head(s) \in Whitespace
         THEN (IF cur = <<>> THEN <<>> ELSE <<cur>>) \o SplitFrom(Tail(s), <<>>)
         ELSE SplitFrom(Tail(s), Append(cur, Head(s)))

Split(s) == SplitFrom(s, <<>>)

\* the categories _build_name_consistency_map takes for names
NameTypes == {<<"P", "E", "R", "S", "O", "N">>,
              <<"G", "I", "V", "E", "N", "N", "A", "M", "E">>,
              <<"S", "U", "R", "N", "A", "M", "E">>}

\* index of the entry of the map with this key, 0 if none; the map is a dict,
\* kept as the sequence of its entries in insertion order
KeyIndex(map, key) ==
    LET hits == {i \in 1..Len(map) : map[i].key = key}
    IN  IF hits = {} THEN 0 ELSE CHOOSE i \in hits : TRUE

\* the body of the loop over name_parts, for one part of one entity
AddNamePart(map, entity, part, txt) ==
    LET normalized == Lower(part)
        with_key == IF KeyIndex(map, normalized) = 0
                    THEN Append(map, [key |-> normalized,
                                      original_entity |-> entity,
                                      occurrences |-> <<>>])
                    ELSE map
        i == KeyIndex(with_key, normalized)
    IN  [with_key EXCEPT ![i].occurrences = @ \o FindIter(txt, part, 0)]

RECURSIVE AddNameParts(_, _, _, _)
AddNameParts(map, entity, name_parts, txt) ==
    IF name_parts = <<>> THEN map
    ELSE AddNameParts(AddNamePart(map, entity, Head(name_parts), txt),
                      entity, Tail(name_parts), txt)

RECURSIVE BuildMapLoop(_, _, _)
BuildMapLoop(map, entities, txt) ==
    IF entities = <<>> THEN map
    ELSE BuildMapLoop(
             IF Head(entities).type \in NameTypes
             THEN AddNameParts(map, Head(entities), Split(Head(entities).value), txt)
             ELSE map,
             Tail(entities), txt)

\* EnhancedPIIRedactor._build_name_consistency_map: the map it leaves in
\* self.name_consistency_map
_build_name_consistency_map(entities, txt) == BuildMapLoop(<<>>, entities, txt)

_CONSISTENT == <<"_", "C", "O", "N", "S", "I", "S", "T", "E", "N", "T">>

\* the any(...) of _apply_name_consistency
AlreadyCovered(enhanced_entities, occurrence) ==
    \E k \in 1..Len(enhanced_entities) :
        LET e == enhanced_entities[k]
        IN  \/ e.start <= occurrence.start /\ occurrence.start < e.end
            \/ e.start < occurrence.end /\ occurrence.end <= e.end

RECURSIVE AddOccurrences(_, _, _)
AddOccurrences(enhanced_entities, original_entity, occurrences) ==
    IF occurrences = <<>> THEN enhanced_entities
    ELSE LET occurrence == Head(occurrences)
         IN  AddOccurrences(
                 IF AlreadyCovered(enhanced_entities, occurrence)
                 THEN enhanced_entities
                 ELSE Append(enhanced_entities,
                             [value |-> occurrence.value,
                              type |-> original_entity.type \o _CONSISTENT,
                              start |-> occurrence.start,
                              end |-> occurrence.end,
                              score |-> ConsistencyScore]),
                 original_entity, Tail(occurrences))

\* EnhancedPIIRedactor._apply_name_consistency, map being what
\* self.name_consistency_map holds when it runs
RECURSIVE _apply_name_consistency(_, _)
_apply_name_consistency(entities, map) ==
    IF map = <<>> THEN entities
    ELSE _apply_name_consistency(
             AddOccurrences(entities, Head(map).original_entity,
                            Head(map).occurrences),
             Tail(map))

-----------------------------------------------------------------------------
(* restore_text.                                                           *)

\* the escapes re's replacement template turns into one character
TemplateEscapes ==
    [c \in {"a", "b", "f", "n", "r", "t", "v", "\\"} |->
        CASE c = "a" -> "BEL" [] c = "b" -> "BS" [] c = "f" -> "\f"
          [] c = "n" -> "\n" [] c = "r" -> "\r" [] c = "t" -> "\t"
          [] c = "v" -> "VT" [] c = "\\" -> "\\"]

\* re.sub reads its replacement as a template: a backslash escape is expanded,
\* a group reference or an unknown letter escape is an error (no group exists
\* in an escaped literal pattern). The texts of the model hold no \0 and no \g<0>.
RECURSIVE ExpandTemplate(_, _)
ExpandTemplate(repl, i) ==
    IF i > Len(repl) THEN [ok |-> TRUE, out |-> <<>>]
    ELSE IF repl[i] # "\\"
         THEN LET r == ExpandTemplate(repl, i + 1)
              IN  [ok |-> r.ok, out |-> <<repl[i]>> \o r.out]
         ELSE IF i = Len(repl) THEN [ok |-> FALSE, out |-> <<>>]
              ELSE LET c == repl[i + 1]
                       r == ExpandTemplate(repl, i + 2)
                   IN  IF c \in DOMAIN TemplateEscapes
                       THEN [ok |-> r.ok, out |-> <<TemplateEscapes[c]>> \o r.out]
                       ELSE IF c \in AsciiLetters \cup Digits
                            THEN [ok |-> FALSE, out |-> <<>>]
                            ELSE [ok |-> r.ok, out |-> <<"\\", c>> \o r.out]

\* sorted(token_mappings, key=lambda x: len(x['token']), reverse=True): stable
RECURSIVE InsertByTokenLen(_, _)
InsertByTokenLen(sorted, m) ==
    IF sorted = <<>> THEN <<m>>
    ELSE IF Len(m.token) > Len(Head(sorted).token) THEN <<m>> \o sorted
         ELSE <<Head(sorted)>> \o InsertByTokenLen(Tail(sorted), m)

RECURSIVE SortByTokenLen(_)
SortByTokenLen(s) ==
    IF s = <<>> THEN <<>>
    ELSE InsertByTokenLen(SortByTokenLen(SubSeq(s, 1, Len(s) - 1)), s[Len(s)])

\* the validation loop: the first mapping whose token is not in redacted_text
MissingTokens(redacted_text, token_mappings) ==
    {i \in 1..Len(token_mappings) : ~Contains(redacted_text, token_mappings[i].token)}

\* the substitution loop over sorted_mappings, restored_text carried along
RECURSIVE Substitute(_, _)
Substitute(restored_text, sorted_mappings) ==
    IF sorted_mappings = <<>>
    THEN [status |-> "ok", token |-> None, restored_text |-> restored_text]
    ELSE LET m == Head(sorted_mappings)
             repl == ExpandTemplate(m.value, 1)
         IN  IF ~repl.ok
             THEN [status |-> "re.error", token |-> m.token,
                   restored_text |-> restored_text]
             ELSE Substitute(ReplaceAll(restored_text, m.token, repl.out),
                             Tail(sorted_mappings))

\* validation done inside the substitution loop, one token at a time
RECURSIVE SubstituteChecking(_, _)
SubstituteChecking(restored_text, sorted_mappings) ==
    IF sorted_mappings = <<>>
    THEN [status |-> "ok", token |-> None, restored_text |-> restored_text]
    ELSE LET m == Head(sorted_mappings)
             repl == ExpandTemplate(m.value, 1)
         IN  IF ~Contains(restored_text, m.token)
             THEN [status |-> "ValueError", token |-> m.token,
                   restored_text |-> restored_text]
             ELSE IF ~repl.ok
                  THEN [status |-> "re.error", token |-> m.token,
                        restored_text |-> restored_text]
                  ELSE SubstituteChecking(
                           ReplaceAll(restored_text, m.token, repl.out),
                           Tail(sorted_mappings))

restore_text_lazy(redacted_text, token_mappings) ==
    SubstituteChecking(redacted_text, SortByTokenLen(token_mappings))

\* PIIRedactor.restore_text: how it ends (returns, or raises naming a token) and
\* its local restored_text at that point
restore_text(redacted_text, token_mappings) ==
    LET missing == MissingTokens(redacted_text, token_mappings)
    IN  IF missing # {}
        THEN [status |-> "ValueError",
              token |-> token_mappings[CHOOSE i \in missing :
                                           \A j \in missing : i <= j].token,
              restored_text |-> redacted_text]
        ELSE Substitute(redacted_text, SortByTokenLen(token_mappings))

\* the /restore endpoint's answer to the three ways restore_text ends
RestoreResponse(outcome) ==
    CASE outcome.status = "ok" ->
            [status_code |-> 200, restored_text |-> outcome.restored_text]
      [] outcome.status = "ValueError" ->
            [status_code |-> 400, detail |-> outcome.token]
      [] OTHER ->
            [status_code |-> 500, detail |-> outcome.token]

-----------------------------------------------------------------------------
(* The inputs: documents, category tables, detector outputs, thresholds.   *)

GIVENNAME == <<"G", "I", "V", "E", "N", "N", "A", "M", "E">>
SURNAME == <<"S", "U", "R", "N", "A", "M", "E">>
NAME == <<"N", "A", "M", "E">>

\* the raw categories the detector labels with
RawTypes == {GIVENNAME, SURNAME}

\* shared/type_mappings.json as loaded: absent or unreadable (the table is then
\* {}), or a table showing both name categories as NAME
NameTable == (GIVENNAME :> NAME) @@ (SURNAME :> NAME)

TypeTables == {EmptyDict, NameTable}

\* A document is given by the units the detector's tokenizer cuts it into: the
\* detector labels whole units, so an entity span begins and ends at unit
\* boundaries. Whether a unit's offsets take in the blank before a word is the
\* tokenizer's choice, hence the blank is a unit that a span may or may not cover.
PlainUnits == << <<"A", "l">>, <<" ">>, <<"B", "o">> >>

\* a document that quotes a placeholder
LiteralUnits ==
    << <<"<", "P", "I", "I", "_", "N", "A", "M", "E", "_", "1", ">">>,
       <<" ">>, <<"B", "o">> >>

\* a document whose PII holds a backslash (an account name such as C\n)
BackslashUnits == << <<"C", "\\", "n">> >>

\* a document that names a person twice, the second time in lower case
RepeatUnits == << <<"A", "l">>, <<" ">>, <<"a", "l">> >>

\* the document of the merge steps: one unit per character
MergeUnits == << <<"a">>, <<"b">>, <<"c">> >>

RECURSIVE Flatten(_)
Flatten(units) ==
    IF units = <<>> THEN <<>> ELSE Head(units) \o Flatten(Tail(units))

\* the character offsets at which units begin or end
Boundaries(units) == {Len(Flatten(SubSeq(units, 1, k))) : k \in 0..Len(units)}

Spans(units) ==
    {sp \in Boundaries(units) \X Boundaries(units) : sp[1] < sp[2]}

\* confidences the detector reports, in units of 10^-7: 0.5000002 and 0.9
Scores == {5000002, 9000000}

\* confidence thresholds callers pass: 0.5, 0.5000004 and 1.0
Thresholds == {5000000, 5000004, 10000000}

\* the redact / restore pipeline is run with one confidence and two thresholds,
\* one that keeps every entity and one that keeps none
PipelineScores == {9000000}
PipelineThresholds == {5000000, 10000000}

\* an entity as _detect_pii_in_chunk returns it: the value is the text of its
\* units and the gaps between them, stripped
DetectedEntity(txt, sp, ty, sc) ==
    [value |-> Strip(Slice(txt, sp[1], sp[2])), type |-> ty,
     start |-> sp[1], end |-> sp[2], score |-> sc]

DetectedEntities(units, scores) ==
    {DetectedEntity(Flatten(units), sp, ty, sc) :
        sp \in Spans(units), ty \in RawTypes, sc \in scores}

\* every detector output of at most n entities, in any order, overlapping or not
\* (chunks overlap, so two chunks may report overlapping spans)
EntityLists(units, scores, n) ==
    UNION {[1..k -> DetectedEntities(units, scores)] : k \in 0..n}

\* what one chunk alone reports: entities in text order, none overlapping
ChunkEntityLists(units, scores, n) ==
    {l \in EntityLists(units, scores, n) :
        \A i \in 1..Len(l) - 1 : l[i].end <= l[i + 1].start}

-----------------------------------------------------------------------------
(* The merge steps applied to detector outputs (SpecMerge).                *)

InitMerge ==
    /\ text = Flatten(MergeUnits)
    /\ _shared_type_mapping = NameTable
    /\ all_entities \in EntityLists(MergeUnits, Scores, MaxMergeEntities)
    /\ merged = NoCall
    /\ redaction = NoCall
    /\ restoration = NoCall
    /\ calls = None
    /\ counters = None
    /\ REDACTION_CACHE = None
    /\ name_consistency_map = <<>>
    /\ predictions = None

\* the merge loop and sort of detect_pii, run on the detector output
MergeDetect ==
    /\ merged = NoCall
    /\ merged' = [step |-> "detect_pii", first |-> DetectMerge(all_entities, text),
                  passes |-> 1, second |-> <<>>]
    /\ UNCHANGED <<text, _shared_type_mapping, all_entities, redaction,
                   restoration, calls, counters, REDACTION_CACHE,
                   name_consistency_map, predictions>>

\* _merge_entities run on the detector output
MergeEnhanced ==
    /\ merged = NoCall
    /\ merged' = [step |-> "_merge_entities",
                  first |-> _merge_entities(all_entities, text),
                  passes |-> 1, second |-> <<>>]
    /\ UNCHANGED <<text, _shared_type_mapping, all_entities, redaction,
                   restoration, calls, counters, REDACTION_CACHE,
                   name_consistency_map, predictions>>

\* the same merge step run again, on its own output
MergeAgain ==
    /\ merged # NoCall
    /\ merged.step \in {"detect_pii", "_merge_entities"}
    /\ merged.passes = 1
    /\ merged' = [merged EXCEPT !.passes = 2,
                                !.second =
                                    IF merged.step = "detect_pii"
                                    THEN DetectMerge(merged.first, text)
                                    ELSE _merge_entities(merged.first, text)]
    /\ UNCHANGED <<text, _shared_type_mapping, all_entities, redaction,
                   restoration, calls, counters, REDACTION_CACHE,
                   name_consistency_map, predictions>>

\* redact_text run on the same detector output: its token list
MergeRedact ==
    /\ merged = NoCall
    /\ \E c \in Thresholds :
          merged' = [step |-> "redact_text",
                     first |-> redact_text(all_entities, text, c).token_mappings,
                     passes |-> 1, second |-> <<>>,
                     confidence_threshold |-> c,
                     entities |-> detect_pii(all_entities, text, EmptyDict, c)]
    /\ UNCHANGED <<text, _shared_type_mapping, all_entities, redaction,
                   restoration, calls, counters, REDACTION_CACHE,
                   name_consistency_map, predictions>>

NextMerge == MergeDetect \/ MergeEnhanced \/ MergeAgain \/ MergeRedact

SpecMerge == InitMerge /\ [][NextMerge]_vars

\* the same steps on detector outputs of at most MaxEntities entities
InitMergeShort ==
    /\ text = Flatten(MergeUnits)
    /\ _shared_type_mapping = NameTable
    /\ all_entities \in EntityLists(MergeUnits, Scores, MaxEntities)
    /\ merged = NoCall
    /\ redaction = NoCall
    /\ restoration = NoCall
    /\ calls = None
    /\ counters = None
    /\ REDACTION_CACHE = None
    /\ name_consistency_map = <<>>
    /\ predictions = None

SpecMergeShort == InitMergeShort /\ [][NextMerge]_vars

-----------------------------------------------------------------------------
(* The redact / restore pipeline, one call at a time (Spec).               *)

PipelineUnits == {PlainUnits, LiteralUnits, BackslashUnits, RepeatUnits}

Init ==
    /\ \E units \in PipelineUnits :
          /\ text = Flatten(units)
          /\ all_entities \in EntityLists(units, PipelineScores, MaxEntities)
    /\ _shared_type_mapping \in TypeTables
    /\ merged = NoCall
    /\ redaction = NoCall
    /\ restoration = NoCall
    /\ calls = None
    /\ counters = None
    /\ REDACTION_CACHE = None
    /\ name_consistency_map = <<>>
    /\ predictions = None

\* a call of redact_text: its argument, the entities detect_pii handed it, and
\* what it returned
Redact ==
    /\ redaction = NoCall
    /\ \E c \in PipelineThresholds :
          LET entities == detect_pii(all_entities, text, EmptyDict, c)
              result == BuildResult(text, entities)
          IN  redaction' = [step |-> "redact_text",
                            confidence_threshold |-> c,
                            entities |-> entities,
                            redacted_text |-> result.redacted_text,
                            token_mappings |-> result.token_mappings]
    /\ restoration' = NoCall
    /\ UNCHANGED <<text, _shared_type_mapping, all_entities, merged, calls,
                   counters, REDACTION_CACHE, name_consistency_map,
                   predictions>>

\* a mapping the redaction never issued
ForeignMapping ==
    [token |-> FormatToken(<<"X">>, 9), value |-> <<"Z", "e", "d">>,
     type |-> <<"X">>, start |-> 0, end |-> 3]

InsertAt(s, k, e) == SubSeq(s, 1, k) \o <<e>> \o SubSeq(s, k + 1, Len(s))

\* the mapping lists a client may send after a redaction: the list it was
\* given, or that list with a foreign mapping put in at any place
ClientMappings(token_mappings) ==
    {token_mappings}
        \cup {InsertAt(token_mappings, k, ForeignMapping) :
                 k \in 0..Len(token_mappings)}

\* a call of the /restore endpoint, hence of restore_text
Restore ==
    /\ redaction # NoCall
    /\ restoration = NoCall
    /\ \E rt \in {redaction.redacted_text, text},
          tm \in ClientMappings(redaction.token_mappings) :
          LET outcome == restore_text(rt, tm)
          IN  restoration' = [step |-> "restore_text",
                              redacted_text |-> rt,
                              token_mappings |-> tm,
                              outcome |-> outcome,
                              response |-> RestoreResponse(outcome)]
    /\ UNCHANGED <<text, _shared_type_mapping, all_entities, merged, redaction,
                   calls, counters, REDACTION_CACHE, name_consistency_map,
                   predictions>>

Next == Redact \/ Restore

Spec == Init /\ [][Next]_vars

-----------------------------------------------------------------------------
(* restore_text on what a client sends to /restore (SpecRestore).          *)

\* the pieces a client's redacted_text is put together from, and the length of
\* the mapping list it sends
MaxPieces == 3
MaxMappings == 2

\* a placeholder, a token that is a substring of it, and a placeholder the
\* text does not hold
LongToken == FormatToken(<<"A">>, 1)
ShortToken == <<"A">>
OtherToken == FormatToken(<<"A">>, 2)

RestorePieces == {LongToken, ShortToken, <<" ">>}

RestoreTexts ==
    {Flatten(ps) : ps \in UNION {[1..k -> RestorePieces] : k \in 1..MaxPieces}}

RestoreValues == {<<"A", "l">>, <<"B", "o">>, <<"C", "\\", "n">>}

RestoreMappings ==
    {[token |-> t, value |-> v] :
        t \in {LongToken, ShortToken, OtherToken}, v \in RestoreValues}

MappingLists == UNION {[1..k -> RestoreMappings] : k \in 0..MaxMappings}

InitRestore ==
    /\ text = None
    /\ all_entities = None
    /\ _shared_type_mapping = EmptyDict
    /\ merged = NoCall
    /\ redaction = NoCall
    /\ restoration = NoCall
    /\ \E rt \in RestoreTexts, tm \in MappingLists :
          calls = [redacted_text |-> rt, tokens |-> tm]
    /\ counters = None
    /\ REDACTION_CACHE = None
    /\ name_consistency_map = <<>>
    /\ predictions = None

\* the /restore endpoint called with the request's redacted_text and tokens
RestoreEndpoint ==
    /\ restoration = NoCall
    /\ LET outcome == restore_text(calls.redacted_text, calls.tokens)
       IN  restoration' = [step |-> "restore_text",
                           redacted_text |-> calls.redacted_text,
                           token_mappings |-> calls.tokens,
                           outcome |-> outcome,
                           response |-> RestoreResponse(outcome)]
    /\ UNCHANGED <<text, _shared_type_mapping, all_entities, merged, redaction,
                   calls, counters, REDACTION_CACHE, name_consistency_map,
                   predictions>>

NextRestore == RestoreEndpoint

SpecRestore == InitRestore /\ [][NextRestore]_vars

-----------------------------------------------------------------------------
(* get_cached_redaction called from concurrent request threads (SpecConc). *)

\* the request threads
Callers == {"t1", "t2"}

\* hashlib.md5(text.encode()).hexdigest(): taken to be free of collisions on
\* the documents of the model, so a document stands for its own digest
TextHash(txt) == txt

\* f"{confidence_threshold:.6f}": the threshold rounded to six decimals, here
\* a count of 10^-6
ThresholdKey(confidence_threshold) == (confidence_threshold + 5) \div 10

CacheKey(txt, confidence_threshold) ==
    <<TextHash(txt), ThresholdKey(confidence_threshold)>>

\* the counter through the self attribute set in __init__
CounterRef_self(t) == "self"

\* the dict that a call of redact_text hands down to detect_pii and
\* _generate_redaction_token: the one it has just created
CounterRef(t) == t

IdleCall ==
    [pc |-> "idle", confidence_threshold |-> 0, pending |-> <<>>,
     entities |-> <<>>, result |-> NoCall]

InitConc ==
    /\ text = Flatten(PlainUnits)
    /\ all_entities \in ChunkEntityLists(PlainUnits, Scores, MaxEntities)
    /\ _shared_type_mapping \in TypeTables
    /\ merged = NoCall
    /\ redaction = NoCall
    /\ restoration = NoCall
    /\ calls = [t \in Callers |-> IdleCall]
    /\ counters = [o \in Callers \cup {"self"} |-> EmptyDict]
    /\ REDACTION_CACHE = EmptyDict
    /\ name_consistency_map = <<>>
    /\ predictions = None

\* get_cached_redaction up to the end of its first locked section: a hit
\* returns the cached value, a miss goes on to compute
CacheLookup(t) ==
    /\ calls[t].pc = "idle"
    /\ \E c \in Thresholds :
          LET cache_key == CacheKey(text, c)
          IN  IF cache_key \in DOMAIN REDACTION_CACHE
              THEN calls' = [calls EXCEPT ![t].pc = "returned",
                                          ![t].confidence_threshold = c,
                                          ![t].result = REDACTION_CACHE[cache_key]]
              ELSE calls' = [calls EXCEPT ![t].pc = "miss",
                                          ![t].confidence_threshold = c]
    /\ UNCHANGED <<text, _shared_type_mapping, all_entities, merged, redaction,
                   restoration, counters, REDACTION_CACHE,
                   name_consistency_map, predictions>>

\* redact_text entered: a new token counter, then detect_pii up to its
\* threshold filter
RedactStart(t) ==
    /\ calls[t].pc = "miss"
    /\ counters' = [counters EXCEPT ![t] = EmptyDict]
    /\ calls' = [calls EXCEPT
                    ![t].pc = "tokens",
                    ![t].pending = DetectFiltered(all_entities, text,
                                                  calls[t].confidence_threshold)]
    /\ UNCHANGED <<text, _shared_type_mapping, all_entities, merged, redaction,
                   restoration, REDACTION_CACHE, name_consistency_map,
                   predictions>>

\* an exception leaves get_cached_redaction at once and stores an entry first
CacheOnFailure_partial(cache, cache_key) ==
    Put(cache, cache_key, [redacted_text |-> <<>>, token_mappings |-> <<>>])

\* what get_cached_redaction does to the cache when redact_text raises: the
\* exception leaves it before the second locked section, nothing is written
CacheOnFailure(cache, cache_key) == cache

\* the detector raises inside redact_text: get_cached_redaction ends with that
\* exception, which the endpoint answers with an error
DetectorRaises(t) ==
    /\ calls[t].pc = "miss"
    /\ REDACTION_CACHE' =
          CacheOnFailure(REDACTION_CACHE,
                         CacheKey(text, calls[t].confidence_threshold))
    /\ calls' = [calls EXCEPT ![t].pc = "raised"]
    /\ UNCHANGED <<text, _shared_type_mapping, all_entities, merged, redaction,
                   restoration, counters, name_consistency_map, predictions>>

\* one iteration of detect_pii's token loop
GenerateToken(t) ==
    /\ calls[t].pc = "tokens"
    /\ calls[t].pending # <<>>
    /\ LET entity == Head(calls[t].pending)
           g == _generate_redaction_token(entity.type, counters[CounterRef(t)])
       IN  /\ counters' = [counters EXCEPT ![CounterRef(t)] = g.counter]
           /\ calls' = [calls EXCEPT
                           ![t].pending = Tail(calls[t].pending),
                           ![t].entities = Append(calls[t].entities,
                                                  WithToken(entity, g.token))]
    /\ UNCHANGED <<text, _shared_type_mapping, all_entities, merged, redaction,
                   restoration, REDACTION_CACHE, name_consistency_map,
                   predictions>>

\* detect_pii returns and redact_text builds its result
RedactFinish(t) ==
    /\ calls[t].pc = "tokens"
    /\ calls[t].pending = <<>>
    /\ calls' = [calls EXCEPT ![t].pc = "computed",
                              ![t].result = BuildResult(text, calls[t].entities)]
    /\ UNCHANGED <<text, _shared_type_mapping, all_entities, merged, redaction,
                   restoration, counters, REDACTION_CACHE,
                   name_consistency_map, predictions>>

\* the second locked section of get_cached_redaction, and its return
CacheWrite(t) ==
    /\ calls[t].pc = "computed"
    /\ REDACTION_CACHE' =
          Put(REDACTION_CACHE, CacheKey(text, calls[t].confidence_threshold),
              calls[t].result)
    /\ calls' = [calls EXCEPT ![t].pc = "returned"]
    /\ UNCHANGED <<text, _shared_type_mapping, all_entities, merged, redaction,
                   restoration, counters, name_consistency_map, predictions>>

\* the TTLCache drops an entry: its time to live is over, or it is evicted
CacheExpire ==
    /\ \E k \in DOMAIN REDACTION_CACHE :
          REDACTION_CACHE' =
              [j \in DOMAIN REDACTION_CACHE \ {k} |-> REDACTION_CACHE[j]]
    /\ UNCHANGED <<text, _shared_type_mapping, all_entities, merged, redaction,
                   restoration, calls, counters, name_consistency_map,
                   predictions>>

NextConc ==
    \/ \E t \in Callers :
          \/ CacheLookup(t)
          \/ RedactStart(t)
          \/ DetectorRaises(t)
          \/ GenerateToken(t)
          \/ RedactFinish(t)
          \/ CacheWrite(t)
    \/ CacheExpire

SpecConc == InitConc /\ [][NextConc]_vars

-----------------------------------------------------------------------------
(* detect_pii_with_consistency called from concurrent threads on one        *)
(* EnhancedPIIRedactor (SpecEnh).                                           *)

\* the entities one chunk reports, one per labeled word at most
MaxChunkEntities == 1

\* the spans of the words of a document
WordSpans(units) ==
    {sp \in Spans(units) :
        \E k \in 1..Len(units) :
            /\ sp[1] = Len(Flatten(SubSeq(units, 1, k - 1)))
            /\ sp[2] = Len(Flatten(SubSeq(units, 1, k)))
            /\ Strip(units[k]) # <<>>}

WordEntities(units) ==
    {DetectedEntity(Flatten(units), sp, ty, sc) :
        sp \in WordSpans(units), ty \in RawTypes, sc \in PipelineScores}

\* what _detect_pii_in_chunk may return for a chunk that holds the words
ChunkResults(units) ==
    {l \in UNION {[1..k -> WordEntities(units)] : k \in 0..MaxChunkEntities} :
        \A i \in 1..Len(l) - 1 : l[i].end <= l[i + 1].start}

\* the futures of one batch: the chunk results in the order of submission.
\* The words lie in the overlap of consecutive chunks, so each chunk may
\* report any of them.
FutureLists(units, n) == [1..n -> ChunkResults(units)]

\* a call that has submitted its chunks to the pool
SubmittedCall(units, futures) ==
    [pc |-> "batch", text |-> Flatten(units), futures |-> futures,
     pending |-> DOMAIN futures, batch_entities |-> <<>>,
     consistent_entities |-> <<>>, outcome |-> None]

InitEnh ==
    /\ text = None
    /\ all_entities = None
    /\ _shared_type_mapping = EmptyDict
    /\ merged = NoCall
    /\ redaction = NoCall
    /\ restoration = NoCall
    /\ \E f1 \in FutureLists(RepeatUnits, 2), f2 \in FutureLists(PlainUnits, 1) :
          calls = ("t1" :> SubmittedCall(RepeatUnits, f1))
                     @@ ("t2" :> SubmittedCall(PlainUnits, f2))
    /\ counters = None
    /\ REDACTION_CACHE = None
    /\ name_consistency_map = <<>>
    /\ predictions = None

\* as_completed hands over the next finished future, whichever it is
ChunkCompleted(t) ==
    /\ calls[t].pc = "batch"
    /\ \E i \in calls[t].pending :
          calls' = [calls EXCEPT
                       ![t].pending = @ \ {i},
                       ![t].batch_entities = @ \o calls[t].futures[i]]
    /\ UNCHANGED <<text, _shared_type_mapping, all_entities, merged, redaction,
                   restoration, counters, REDACTION_CACHE, name_consistency_map,
                   predictions>>

\* _build_name_consistency_map entered: self.name_consistency_map = {}
ResetMap(t) ==
    /\ calls[t].pc = "batch"
    /\ calls[t].pending = {}
    /\ name_consistency_map' = <<>>
    /\ calls' = [calls EXCEPT ![t].pc = "reset"]
    /\ UNCHANGED <<text, _shared_type_mapping, all_entities, merged, redaction,
                   restoration, counters, REDACTION_CACHE, predictions>>

\* the loop of _build_name_consistency_map, writing through self
FillMap(t) ==
    /\ calls[t].pc = "reset"
    /\ name_consistency_map' =
          BuildMapLoop(name_consistency_map, calls[t].batch_entities,
                       calls[t].text)
    /\ calls' = [calls EXCEPT ![t].pc = "built"]
    /\ UNCHANGED <<text, _shared_type_mapping, all_entities, merged, redaction,
                   restoration, counters, REDACTION_CACHE, predictions>>

\* _apply_name_consistency, reading self.name_consistency_map
ApplyConsistency(t) ==
    /\ calls[t].pc = "built"
    /\ calls' = [calls EXCEPT
                    ![t].pc = "applied",
                    ![t].consistent_entities =
                        _apply_name_consistency(calls[t].batch_entities,
                                                name_consistency_map)]
    /\ UNCHANGED <<text, _shared_type_mapping, all_entities, merged, redaction,
                   restoration, counters, REDACTION_CACHE, name_consistency_map,
                   predictions>>

\* _detect_patterns reads self.patterns, an attribute no class sets: the call
\* ends in an AttributeError
DetectPatterns(t) ==
    /\ calls[t].pc = "applied"
    /\ calls' = [calls EXCEPT ![t].pc = "raised",
                              ![t].outcome = "AttributeError"]
    /\ UNCHANGED <<text, _shared_type_mapping, all_entities, merged, redaction,
                   restoration, counters, REDACTION_CACHE, name_consistency_map,
                   predictions>>

NextEnh ==
    \E t \in Callers :
        \/ ChunkCompleted(t)
        \/ ResetMap(t)
        \/ FillMap(t)
        \/ ApplyConsistency(t)
        \/ DetectPatterns(t)

SpecEnh == InitEnh /\ [][NextEnh]_vars

-----------------------------------------------------------------------------
(* detect_pii over a document of more than one chunk (SpecChunk).          *)

\* self.max_length, the tokens of one chunk and of one encoded chunk: 512 in
\* the code, here a window of five
max_length == 5

\* overlap, the tokens a chunk shares with the one before it: 32 in the code
overlap == 3

\* a document of six tokens: b and c are pieces of one word, the others
\* words; the offsets of e take in the blank before it
ChunkDocUnits ==
    << <<"a">>, <<" ">>, <<"b">>, <<"c">>, <<" ">>, <<"d">>, <<" ", "e">>,
       <<" ">>, <<"f">> >>

\* encoding["offset_mapping"] for the whole text: a token per unit that is
\* not blank
RECURSIVE OffsetsFrom(_, _)
OffsetsFrom(units, pos) ==
    IF units = <<>> THEN <<>>
    ELSE (IF Strip(Head(units)) # <<>>
          THEN <<[start |-> pos, end |-> pos + Len(Head(units))]>>
          ELSE <<>>) \o OffsetsFrom(Tail(units), pos + Len(Head(units)))

TokenOffsets(units) == OffsetsFrom(units, 0)

\* the chunks detect_pii cuts the document into
DocChunks ==
    _split_text_into_chunks(Flatten(ChunkDocUnits), TokenOffsets(ChunkDocUnits),
                            max_length, overlap)

DocEncoding(k) ==
    ChunkEncoding(TokenOffsets(ChunkDocUnits), DocChunks[k], max_length)

\* the labels of the model: O, and I- before a category
ModelLabels == {O} \cup {<<"I", "-">> \o ty : ty \in RawTypes}

\* what the model may answer for an encoded chunk: a label and a score per
\* unit, the special tokens labeled O (the score of an O unit is never read)
PredictionsFor(encoded) ==
    {p \in [1..Len(encoded) -> [label : ModelLabels, score : Scores]] :
        \A u \in 1..Len(encoded) :
            /\ encoded[u].start = encoded[u].end => p[u].label = O
            /\ p[u].label = O => \A sc \in Scores : sc <= p[u].score}

InitChunk ==
    /\ text = Flatten(ChunkDocUnits)
    /\ _shared_type_mapping = EmptyDict
    /\ all_entities = <<>>
    /\ merged = NoCall
    /\ redaction = NoCall
    /\ restoration = NoCall
    /\ calls = [pc |-> "chunks", i |-> 1]
    /\ counters = None
    /\ REDACTION_CACHE = None
    /\ name_consistency_map = <<>>
    /\ predictions \in
          {p \in [1..Len(DocChunks) ->
                     UNION {PredictionsFor(DocEncoding(k)) : k \in 1..Len(DocChunks)}] :
              \A k \in 1..Len(DocChunks) : p[k] \in PredictionsFor(DocEncoding(k))}

\* one iteration of the loop over chunks of detect_pii
DetectChunk ==
    /\ calls.pc = "chunks"
    /\ calls.i <= Len(DocChunks)
    /\ all_entities' =
          all_entities \o _detect_pii_in_chunk(DocChunks[calls.i].chunk_text,
                                               DocChunks[calls.i].char_start,
                                               DocEncoding(calls.i),
                                               predictions[calls.i])
    /\ calls' = [calls EXCEPT !.i = @ + 1]
    /\ UNCHANGED <<text, _shared_type_mapping, merged, redaction, restoration,
                   counters, REDACTION_CACHE, name_consistency_map, predictions>>

\* the merge loop and the sort of detect_pii, once every chunk is detected
MergeChunks ==
    /\ calls.pc = "chunks"
    /\ calls.i > Len(DocChunks)
    /\ merged' = [step |-> "detect_pii", first |-> DetectMerge(all_entities, text),
                  passes |-> 1, second |-> <<>>]
    /\ calls' = [calls EXCEPT !.pc = "merged"]
    /\ UNCHANGED <<text, _shared_type_mapping, all_entities, redaction,
                   restoration, counters, REDACTION_CACHE, name_consistency_map,
                   predictions>>

\* redact_text on the entities detect_pii returns for the chunks
RedactChunks ==
    /\ calls.pc = "merged"
    /\ \E c \in Thresholds :
          LET entities == detect_pii(all_entities, text, EmptyDict, c)
              result == BuildResult(text, entities)
          IN  redaction' = [step |-> "redact_text",
                            confidence_threshold |-> c,
                            entities |-> entities,
                            redacted_text |-> result.redacted_text,
                            token_mappings |-> result.token_mappings]
    /\ calls' = [calls EXCEPT !.pc = "redacted"]
    /\ UNCHANGED <<text, _shared_type_mapping, all_entities, merged,
                   restoration, counters, REDACTION_CACHE, name_consistency_map,
                   predictions>>

NextChunk == DetectChunk \/ MergeChunks \/ RedactChunks

SpecChunk == InitChunk /\ [][NextChunk]_vars

-----------------------------------------------------------------------------
(* The loop of _detect_pii_in_chunk, one unit at a time (SpecAccum).       *)

\* the units of the chunk
MaxUnits == 3

\* the characters between one unit and the next: none, a blank, two blanks
Gaps == 0..2

Blanks(n) == [j \in 1..n |-> " "]

UnitLetters == <<"a", "b", "c", "d", "e", "f">>

\* n one-letter units, gaps[k] blanks after the k-th
RECURSIVE UnitsWithGaps(_, _)
UnitsWithGaps(gaps, k) ==
    IF k > Len(gaps) + 1 THEN <<>>
    ELSE << <<UnitLetters[((k - 1) % Len(UnitLetters)) + 1]>> >>
             \o (IF k <= Len(gaps) THEN <<Blanks(gaps[k])>> ELSE <<>>)
             \o UnitsWithGaps(gaps, k + 1)

\* offset_mapping of a chunk that is encoded whole
EncodedWhole(units) == <<SpecialToken>> \o TokenOffsets(units) \o <<SpecialToken>>

\* the chunk begins the document, or lies two characters into it
ChunkOffsets == {0, 2}

InitAccum ==
    /\ \E n \in 1..MaxUnits :
          \E gaps \in [1..(n - 1) -> Gaps], chunk_offset \in ChunkOffsets :
              /\ text = Flatten(UnitsWithGaps(gaps, 1))
              /\ calls = [pc |-> "loop", i |-> 1, chunk_offset |-> chunk_offset,
                          encoded |-> EncodedWhole(UnitsWithGaps(gaps, 1)),
                          current_entity |-> <<>>]
              /\ \E p \in PredictionsFor(EncodedWhole(UnitsWithGaps(gaps, 1))) :
                    predictions = <<p>>
    /\ all_entities = <<>>
    /\ _shared_type_mapping = EmptyDict
    /\ merged = NoCall
    /\ redaction = NoCall
    /\ restoration = NoCall
    /\ counters = None
    /\ REDACTION_CACHE = None
    /\ name_consistency_map = <<>>

\* one iteration of the loop over offset_mapping
AccumulateUnit ==
    /\ calls.pc = "loop"
    /\ calls.i <= Len(calls.encoded)
    /\ LET r == ChunkStep(text, calls.chunk_offset, calls.encoded,
                          predictions[1], calls.i, all_entities,
                          calls.current_entity)
       IN  /\ all_entities' = r.entities
           /\ calls' = [calls EXCEPT !.i = @ + 1, !.current_entity = r.current]
    /\ UNCHANGED <<text, _shared_type_mapping, merged, redaction, restoration,
                   counters, REDACTION_CACHE, name_consistency_map, predictions>>

\* the loop is over: the last entity, if one is open, is closed and appended
FlushLast ==
    /\ calls.pc = "loop"
    /\ calls.i > Len(calls.encoded)
    /\ all_entities' = Flushed(all_entities, calls.current_entity)
    /\ calls' = [calls EXCEPT !.pc = "done", !.current_entity = <<>>]
    /\ UNCHANGED <<text, _shared_type_mapping, merged, redaction, restoration,
                   counters, REDACTION_CACHE, name_consistency_map, predictions>>

NextAccum == AccumulateUnit \/ FlushLast

SpecAccum == InitAccum /\ [][NextAccum]_vars

-----------------------------------------------------------------------------
(* The consistency pass of one call (SpecCons).                            *)

\* a document that names a person twice, the second time in lower case and
\* cut into pieces by the tokenizer
ConsistencyUnits ==
    << <<"A", "n", "n">>, <<" ">>, <<"a">>, <<"n">>, <<"n">> >>

\* detect_pii_with_consistency after _detect_pii_batch: batch_entities is what
\* the detector reported for the one chunk of the document
InitCons ==
    /\ text = Flatten(ConsistencyUnits)
    /\ all_entities \in ChunkEntityLists(ConsistencyUnits, PipelineScores,
                                         MaxEntities)
    /\ calls = [pc |-> "batch", consistent_entities |-> <<>>]
    /\ name_consistency_map = <<>>
    /\ _shared_type_mapping = EmptyDict
    /\ merged = NoCall
    /\ redaction = NoCall
    /\ restoration = NoCall
    /\ counters = None
    /\ REDACTION_CACHE = None
    /\ predictions = None

\* self._build_name_consistency_map(batch_entities, text)
BuildNameMap ==
    /\ calls.pc = "batch"
    /\ name_consistency_map' = _build_name_consistency_map(all_entities, text)
    /\ calls' = [calls EXCEPT !.pc = "map"]
    /\ UNCHANGED <<text, _shared_type_mapping, all_entities, merged, redaction,
                   restoration, counters, REDACTION_CACHE, predictions>>

\* consistent_entities = self._apply_name_consistency(batch_entities, ...)
ApplyNameConsistency ==
    /\ calls.pc = "map"
    /\ calls' = [pc |-> "applied",
                 consistent_entities |->
                     _apply_name_consistency(all_entities, name_consistency_map)]
    /\ UNCHANGED <<text, _shared_type_mapping, all_entities, merged, redaction,
                   restoration, counters, REDACTION_CACHE, name_consistency_map,
                   predictions>>

NextCons == BuildNameMap \/ ApplyNameConsistency

SpecCons == InitCons /\ [][NextCons]_vars

-----------------------------------------------------------------------------
(* _split_text_into_chunks and the windows the detector reads (SpecSplit). *)

\* the tokens of the longest document
MaxTokens == 9

\* a document of n one-letter words, a blank between two words; lead is the
\* whitespace the document begins with; joined says whether the tokenizer's
\* offsets of a word take in the blank before it
RECURSIVE WordUnits(_, _, _)
WordUnits(n, k, joined) ==
    IF k > n THEN <<>>
    ELSE LET letter == UnitLetters[((k - 1) % Len(UnitLetters)) + 1]
         IN  (IF k = 1 THEN << <<letter>> >>
              ELSE IF joined THEN << <<" ", letter>> >>
              ELSE << <<" ">>, <<letter>> >>)
                 \o WordUnits(n, k + 1, joined)

\* the blank the document begins with is part of the first word's offsets when
\* the tokenizer joins blanks to words
DocumentUnits(n, lead, joined) ==
    IF lead = <<>> THEN WordUnits(n, 1, joined)
    ELSE IF joined /\ n > 0
         THEN <<lead \o Head(WordUnits(n, 1, joined))>>
                  \o Tail(WordUnits(n, 1, joined))
         ELSE <<lead>> \o WordUnits(n, 1, joined)

InitSplit ==
    /\ \E n \in 0..MaxTokens, lead \in {<<>>, <<" ">>}, joined \in BOOLEAN :
          /\ text = Flatten(DocumentUnits(n, lead, joined))
          /\ calls = [pc |-> "split", i |-> 0,
                      offsets |-> TokenOffsets(DocumentUnits(n, lead, joined)),
                      chunks |-> <<>>, analyzed |-> {}]
    /\ all_entities = <<>>
    /\ _shared_type_mapping = EmptyDict
    /\ merged = NoCall
    /\ redaction = NoCall
    /\ restoration = NoCall
    /\ counters = None
    /\ REDACTION_CACHE = None
    /\ name_consistency_map = <<>>
    /\ predictions = None

\* one iteration of the while loop of _split_text_into_chunks
SplitIteration ==
    /\ calls.pc = "split"
    /\ calls.i < Len(calls.offsets)
    /\ calls' = [calls EXCEPT
                    !.chunks = Append(@, ChunkAt(text, calls.offsets, max_length,
                                                 calls.i)),
                    !.i = NextStart(ChunkEnd(calls.i, max_length,
                                             Len(calls.offsets)),
                                    Len(calls.offsets), overlap)]
    /\ UNCHANGED <<text, _shared_type_mapping, all_entities, merged, redaction,
                   restoration, counters, REDACTION_CACHE, name_consistency_map,
                   predictions>>

\* the loop condition fails: return chunks, and detect_pii starts its loop
\* over them
SplitReturn ==
    /\ calls.pc = "split"
    /\ calls.i >= Len(calls.offsets)
    /\ calls' = [calls EXCEPT !.pc = "detect", !.i = 1]
    /\ UNCHANGED <<text, _shared_type_mapping, all_entities, merged, redaction,
                   restoration, counters, REDACTION_CACHE, name_consistency_map,
                   predictions>>

\* the tokens of the document among the units that encode_plus keeps of a chunk
TokensAnalyzed(offsets, chunk) ==
    LET encoded == ChunkEncoding(offsets, chunk, max_length)
    IN  {t \in 1..Len(offsets) :
            \E u \in 1..Len(encoded) :
                /\ encoded[u].start # encoded[u].end
                /\ encoded[u].start + chunk.char_start = offsets[t].start
                /\ encoded[u].end + chunk.char_start = offsets[t].end}

\* _detect_pii_in_chunk on the next chunk: the model labels the units of the
\* encoded chunk
DetectNext ==
    /\ calls.pc = "detect"
    /\ calls.i <= Len(calls.chunks)
    /\ calls' = [calls EXCEPT
                    !.analyzed = @ \cup TokensAnalyzed(calls.offsets,
                                                       calls.chunks[calls.i]),
                    !.i = @ + 1]
    /\ UNCHANGED <<text, _shared_type_mapping, all_entities, merged, redaction,
                   restoration, counters, REDACTION_CACHE, name_consistency_map,
                   predictions>>

NextSplit == SplitIteration \/ SplitReturn \/ DetectNext

SpecSplit == InitSplit /\ [][NextSplit]_vars

\* the loop runs on while its condition holds
SpecSplitFair == SpecSplit /\ WF_vars(SplitIteration) /\ WF_vars(SplitReturn)

-----------------------------------------------------------------------------
(* Properties of the redact / restore pipeline (Spec).                     *)

Redacted == redaction.step = "redact_text"

Restored == restoration.step = "restore_text"

\* the restore call was given exactly what the redaction returned
RestoredFromRedaction ==
    /\ Restored
    /\ restoration.redacted_text = redaction.redacted_text
    /\ restoration.token_mappings = redaction.token_mappings

\* C1: restoring the redacted text with the token mappings that redact_text
\* returned gives back the original text, character for character.
RoundTrip ==
    RestoredFromRedaction =>
        /\ restoration.outcome.status = "ok"
        /\ restoration.outcome.restored_text = text

\* the mappings of the restore call whose token is not in its redacted text
MissingInRequest ==
    {i \in 1..Len(restoration.token_mappings) :
        ~Contains(restoration.redacted_text, restoration.token_mappings[i].token)}

\* C2: a restore call with a token that is not in the redacted text ends in a
\* ValueError naming a missing token, answered 400, and has substituted nothing.
MissingTokenAborts ==
    (Restored /\ MissingInRequest # {}) =>
        /\ restoration.outcome.status = "ValueError"
        /\ \E i \in MissingInRequest :
              restoration.outcome.token = restoration.token_mappings[i].token
        /\ restoration.outcome.restored_text = restoration.redacted_text
        /\ restoration.response.status_code = 400
        /\ "restored_text" \notin DOMAIN restoration.response

\* a restore call with a missing token listed after a token that is present
MissingTokenAborts_Witness ==
    /\ Restored
    /\ \E i, j \in 1..Len(restoration.token_mappings) :
          /\ j < i
          /\ i \in MissingInRequest
          /\ j \notin MissingInRequest
          /\ Len(restoration.token_mappings[j].token)
                > Len(restoration.token_mappings[i].token)

\* C4: the tokens of one redaction result are pairwise distinct.
TokensDistinct ==
    Redacted =>
        \A i, j \in 1..Len(redaction.token_mappings) :
            i # j => redaction.token_mappings[i].token
                        # redaction.token_mappings[j].token

\* two mappings of different raw categories shown under one display category
TokensDistinct_Witness ==
    /\ Redacted
    /\ \E i, j \in 1..Len(redaction.token_mappings) :
          /\ redaction.token_mappings[i].type # redaction.token_mappings[j].type
          /\ DescriptiveType(redaction.token_mappings[i].type)
                = DescriptiveType(redaction.token_mappings[j].type)

\* C5: every token of the token mappings occurs exactly once in redacted_text.
TokenOccursOnce ==
    Redacted =>
        \A i \in 1..Len(redaction.token_mappings) :
            Cardinality(Occurrences(redaction.redacted_text,
                                    redaction.token_mappings[i].token)) = 1

\* C6: when no entity survives, redact_text returns the text unchanged and an
\* empty token list.
NoEntitiesUnchanged ==
    (Redacted /\ redaction.entities = <<>>) =>
        /\ redaction.redacted_text = text
        /\ redaction.token_mappings = <<>>

\* the detector found entities and the threshold removed them all
NoEntitiesUnchanged_Witness ==
    /\ Redacted
    /\ redaction.entities = <<>>
    /\ all_entities # <<>>
    /\ text # <<>>

-----------------------------------------------------------------------------
(* Properties of the merge steps (SpecMerge).                              *)

MergeRan == merged.step \in {"detect_pii", "_merge_entities"}

NoTwoOverlap(entities) ==
    \A i, j \in 1..Len(entities) :
        i # j => \/ entities[i].end <= entities[j].start
                 \/ entities[j].end <= entities[i].start

\* C3: no two distinct entities of a merge step's output overlap.
MergedNonOverlapping == MergeRan => NoTwoOverlap(merged.first)

Ascending(s) == \A i, j \in 1..Len(s) : i < j => s[i].start <= s[j].start

\* C9: the output of the merge step, and the token list of a redaction result,
\* are in ascending order of start.
AscendingStart ==
    merged.step # None => Ascending(merged.first) /\ Ascending(merged.second)

\* detect_pii's merge step given entities out of order, leaving two or more
AscendingStart_Witness ==
    /\ merged.step = "detect_pii"
    /\ Len(merged.first) >= 2
    /\ ~Ascending(all_entities)

AsSet(s) == {s[i] : i \in 1..Len(s)}

\* C10: a merge step run on its own output returns the same set of entities.
MergeIdempotent ==
    (MergeRan /\ merged.passes = 2) => AsSet(merged.second) = AsSet(merged.first)

-----------------------------------------------------------------------------
(* Properties of concurrent calls (SpecConc).                              *)

\* the entities among the first n of s that are shown under the category of s[n]
SameCategoryUpTo(s, n) ==
    {j \in 1..n : DescriptiveType(s[j].type) = DescriptiveType(s[n].type)}

\* the counter a call has built when it has issued tokens to the entities s
CountsOf(s) ==
    [d \in {DescriptiveType(s[i].type) : i \in 1..Len(s)} |->
        Cardinality({i \in 1..Len(s) : DescriptiveType(s[i].type) = d})]

\* C7: every redact_text call numbers each display category from 1 in a counter
\* of its own, whatever other calls have done or are doing, and the counter of
\* the redactor instance is never used.
OwnTokenCounter ==
    \A t \in Callers :
        calls[t].pc \in {"tokens", "computed", "returned"} =>
            /\ \A i \in 1..Len(calls[t].entities) :
                  calls[t].entities[i].token =
                      FormatToken(DescriptiveType(calls[t].entities[i].type),
                                  Cardinality(SameCategoryUpTo(calls[t].entities, i)))
            /\ calls[t].pc = "tokens" => counters[t] = CountsOf(calls[t].entities)
            /\ counters["self"] = EmptyDict

\* two calls inside their token loops at once, each having issued a token of
\* the same display category
OwnTokenCounter_Witness ==
    \E t, u \in Callers :
        /\ t # u
        /\ calls[t].pc = "tokens" /\ calls[u].pc = "tokens"
        /\ calls[t].entities # <<>> /\ calls[u].entities # <<>>
        /\ calls[t].pending # <<>>
        /\ calls[t].entities[1].token = calls[u].entities[1].token

\* C8: whatever get_cached_redaction returns for (text, confidence_threshold)
\* is what redact_text returns for the same arguments.
CacheTransparent ==
    \A t \in Callers :
        calls[t].pc = "returned" =>
            calls[t].result =
                redact_text(all_entities, text, calls[t].confidence_threshold)

-----------------------------------------------------------------------------
(* Properties of the detection pipeline behind redact_text (Spec).         *)

\* what the consistency pass makes of the detector output
ConsistentEntities ==
    _apply_name_consistency(all_entities,
                            _build_name_consistency_map(all_entities, text))

\* the entities that only the consistency pass produces
ConsistencyOnly ==
    SubSeq(ConsistentEntities, Len(all_entities) + 1, Len(ConsistentEntities))

\* C11: an entity that only the consistency pass produces, that comes through
\* the re-merge and meets the threshold, is among the tokens redact_text returns.
WholePipelineTokens ==
    Redacted =>
        \A k \in 1..Len(ConsistencyOnly) :
            LET e == ConsistencyOnly[k]
            IN  (/\ e \in AsSet(_merge_entities(ConsistentEntities, text))
                 /\ e.score >= redaction.confidence_threshold)
                => \E i \in 1..Len(redaction.token_mappings) :
                      /\ redaction.token_mappings[i].start = e.start
                      /\ redaction.token_mappings[i].end = e.end
                      /\ redaction.token_mappings[i].type = e.type

-----------------------------------------------------------------------------
(* Properties of concurrent consistency passes (SpecEnh).                  *)

Applied(t) == calls[t].pc \in {"applied", "raised"}

\* what the call computes from its own chunk results when no other call runs
AloneConsistent(batch_entities, txt) ==
    _apply_name_consistency(batch_entities,
                            _build_name_consistency_map(batch_entities, txt))

\* C12: under every interleaving of two calls on one redactor, each call ends
\* up with the entities it computes when run alone.
NoSharedEntityState ==
    \A t \in Callers :
        Applied(t) =>
            calls[t].consistent_entities =
                AloneConsistent(calls[t].batch_entities, calls[t].text)

\* the chunk results joined in the order of submission
RECURSIVE JoinFutures(_)
JoinFutures(futures) ==
    IF futures = <<>> THEN <<>> ELSE Head(futures) \o JoinFutures(Tail(futures))

-----------------------------------------------------------------------------
(* Properties of detection across chunks (SpecChunk).                      *)

\* the labels other than O that some chunk gives the token at offsets o
ChunkLabelsAt(o) ==
    UNION {{predictions[k][u].label :
               u \in {v \in 1..Len(DocEncoding(k)) :
                         /\ DocEncoding(k)[v].start # DocEncoding(k)[v].end
                         /\ DocEncoding(k)[v].start + DocChunks[k].char_start
                               = o.start}} :
           k \in 1..Len(DocChunks)} \ {O}

\* every labeled unit of every chunk has the same category
OneCategory ==
    Cardinality(UNION {ChunkLabelsAt(TokenOffsets(ChunkDocUnits)[j]) :
                          j \in 1..Len(TokenOffsets(ChunkDocUnits))}) <= 1

\* the document encoded as one chunk, each unit labeled as the chunks label it
WholeEncoding == <<SpecialToken>> \o TokenOffsets(ChunkDocUnits) \o <<SpecialToken>>

WholePrediction ==
    [u \in 1..Len(WholeEncoding) |->
        [label |-> IF ChunkLabelsAt(WholeEncoding[u]) = {}
                      \/ WholeEncoding[u].start = WholeEncoding[u].end
                   THEN O
                   ELSE CHOOSE l \in ChunkLabelsAt(WholeEncoding[u]) : TRUE,
         score |-> CHOOSE sc \in PipelineScores : TRUE]]

SpanSet(entities) ==
    {<<entities[i].start, entities[i].end>> : i \in 1..Len(entities)}

\* C14: labeled units of one category come out of detect_pii grouped into the
\* same entities whether they lie in one chunk or are reported by two chunks;
\* a span that two chunks report in parts is one entity.
StraddleOneEntity ==
    (calls.pc = "merged" /\ OneCategory) =>
        SpanSet(merged.first) =
            SpanSet(_detect_pii_in_chunk(text, 0, WholeEncoding, WholePrediction))

-----------------------------------------------------------------------------
(* Properties of a failing redaction (SpecConc).                           *)

\* C15: the step in which a call of get_cached_redaction ends with the
\* detector's exception leaves the cache exactly as it was.
FailureLeavesCache ==
    [][(\E t \in Callers : calls[t].pc # "raised" /\ calls'[t].pc = "raised")
          => REDACTION_CACHE' = REDACTION_CACHE]_vars

\* a call has failed, and a call with the same key finds no entry and computes
FailureLeavesCache_Witness ==
    \E t, u \in Callers :
        /\ calls[t].pc = "raised"
        /\ calls[u].pc = "computed"
        /\ CacheKey(text, calls[u].confidence_threshold)
              = CacheKey(text, calls[t].confidence_threshold)
        /\ CacheKey(text, calls[t].confidence_threshold)
              \notin DOMAIN REDACTION_CACHE

-----------------------------------------------------------------------------
(* Properties of the merge of two entities (SpecMerge).                    *)

\* the detector output is two entities that overlap
TwoOverlapping ==
    /\ Len(all_entities) = 2
    /\ Overlap(all_entities[1], all_entities[2])

\* of two overlapping entities a before b in source order: the more confident,
\* then the longer, then the earlier
Winner(a, b) ==
    IF a.score # b.score THEN (IF a.score > b.score THEN a ELSE b)
    ELSE IF a.end - a.start # b.end - b.start
         THEN (IF a.end - a.start > b.end - b.start THEN a ELSE b)
         ELSE a

\* C16: of two overlapping entities of different categories the merge step
\* keeps one, unchanged: the more confident, then the longer, then the earlier.
DifferentCategoryWinner ==
    (/\ MergeRan
     /\ TwoOverlapping
     /\ all_entities[1].type # all_entities[2].type)
    => merged.first = <<Winner(all_entities[1], all_entities[2])>>

\* the one entity that spans two entities of one category
Spanning(a, b, txt) ==
    [value |-> Slice(txt, Min(a.start, b.start), Max(a.end, b.end)),
     type |-> a.type,
     start |-> Min(a.start, b.start),
     end |-> Max(a.end, b.end),
     score |-> Max(a.score, b.score)]

\* C17: two overlapping entities of one category are replaced by the one
\* entity that spans both, with the text of that span and the higher score.
SameCategorySpanning ==
    (/\ MergeRan
     /\ TwoOverlapping
     /\ all_entities[1].type = all_entities[2].type)
    => merged.first = <<Spanning(all_entities[1], all_entities[2], text)>>

-----------------------------------------------------------------------------
(* Properties of the threshold (SpecMergeShort, SpecMerge).                *)

\* an entity without the token detect_pii gave it
Untokened(e) ==
    [value |-> e.value, type |-> e.type, start |-> e.start, end |-> e.end,
     score |-> e.score]

UntokenedSeq(entities) == [i \in 1..Len(entities) |-> Untokened(entities[i])]

\* C18: every entity detect_pii returns meets the threshold, and the list is
\* what detect_pii returns with threshold 0 (the merge of everything detected)
\* less the entities below the threshold.
ThresholdLast ==
    merged.step = "redact_text" =>
        /\ \A i \in 1..Len(merged.entities) :
              merged.entities[i].score >= merged.confidence_threshold
        /\ UntokenedSeq(merged.entities) =
              FilterByThreshold(
                  UntokenedSeq(detect_pii(all_entities, text, EmptyDict, 0)),
                  merged.confidence_threshold)

\* an entity below the threshold was merged into a returned entity that is
\* wider than it
ThresholdLast_Witness ==
    /\ merged.step = "redact_text"
    /\ \E i \in 1..Len(merged.entities), j \in 1..Len(all_entities) :
          /\ all_entities[j].score < merged.confidence_threshold
          /\ all_entities[j].start = merged.entities[i].start
          /\ all_entities[j].end < merged.entities[i].end
          /\ \A k \in 1..Len(all_entities) :
                all_entities[k].start # merged.entities[i].start
                   \/ all_entities[k].end # merged.entities[i].end

-----------------------------------------------------------------------------
(* Properties of token assignment (Spec).                                  *)

\* C19: no entity with a blank value is given a token: every entity that
\* redact_text puts a token in for has a value, and its token has a mapping.
BlankEntitiesDropped ==
    Redacted =>
        \A i \in 1..Len(redaction.entities) :
            /\ Strip(redaction.entities[i].value) # <<>>
            /\ \E k \in 1..Len(redaction.token_mappings) :
                  redaction.token_mappings[k].token = redaction.entities[i].token

\* C20: the k-th mapping of a display category, in the order of the token
\* list, carries the number k.
NumberedInOrder ==
    Redacted =>
        /\ Ascending(redaction.token_mappings)
        /\ \A i \in 1..Len(redaction.token_mappings) :
              redaction.token_mappings[i].token =
                  FormatToken(
                      DescriptiveType(redaction.token_mappings[i].type),
                      Cardinality(SameCategoryUpTo(redaction.token_mappings, i)))

-----------------------------------------------------------------------------
(* Properties of restore_text on client requests (SpecRestore).            *)

\* the occurrences of the request's tokens in its redacted_text, as
\* <<mapping index, offset>>
TokenOccurrences ==
    {o \in (1..Len(restoration.token_mappings))
               \X (0..Len(restoration.redacted_text)) :
        MatchAt(restoration.redacted_text,
                restoration.token_mappings[o[1]].token, o[2])}

OccurrenceEnd(o) == o[2] + Len(restoration.token_mappings[o[1]].token)

\* the request names no token twice, and any two occurrences of its tokens are
\* apart or one inside the other
WellNested ==
    /\ \A i, j \in 1..Len(restoration.token_mappings) :
          restoration.token_mappings[i].token
              = restoration.token_mappings[j].token => i = j
    /\ \A o1, o2 \in TokenOccurrences :
          \/ OccurrenceEnd(o1) <= o2[2]
          \/ OccurrenceEnd(o2) <= o1[2]
          \/ o1[2] <= o2[2] /\ OccurrenceEnd(o2) <= OccurrenceEnd(o1)
          \/ o2[2] <= o1[2] /\ OccurrenceEnd(o1) <= OccurrenceEnd(o2)

\* redacted_text read from offset p on, every occurrence of a token that lies
\* in no longer token's occurrence replaced by that token's stored value
RECURSIVE EachByOwnValue(_, _, _)
EachByOwnValue(rt, tm, p) ==
    IF p >= Len(rt) THEN <<>>
    ELSE LET here == {i \in 1..Len(tm) : MatchAt(rt, tm[i].token, p)}
         IN  IF here = {}
             THEN <<rt[p + 1]>> \o EachByOwnValue(rt, tm, p + 1)
             ELSE LET i == CHOOSE i \in here :
                               \A j \in here :
                                   Len(tm[j].token) <= Len(tm[i].token)
                  IN  tm[i].value
                          \o EachByOwnValue(rt, tm, p + Len(tm[i].token))

\* the request holds a token and a longer token it is a substring of, the
\* longer one occurring in redacted_text
ShorterInsideLonger ==
    \E i, j \in 1..Len(restoration.token_mappings) :
        /\ Len(restoration.token_mappings[i].token)
              < Len(restoration.token_mappings[j].token)
        /\ Contains(restoration.token_mappings[j].token,
                    restoration.token_mappings[i].token)
        /\ Contains(restoration.redacted_text,
                    restoration.token_mappings[j].token)

\* C21: when every token of the request occurs in redacted_text and a shorter
\* token is a substring of a longer one, restore_text returns redacted_text
\* with every occurrence of the longer token replaced by that token's stored
\* value (and every occurrence of the shorter one outside it by the shorter
\* one's value).
LongerTokenOwnValue ==
    (Restored /\ MissingInRequest = {} /\ WellNested /\ ShorterInsideLonger) =>
        /\ restoration.outcome.status = "ok"
        /\ restoration.outcome.restored_text
              = EachByOwnValue(restoration.redacted_text,
                               restoration.token_mappings, 0)

-----------------------------------------------------------------------------
(* Properties of the entities of one chunk (SpecChunk).                    *)

\* start and end are offsets into the document and value is the document's
\* text between them, trimmed
WholeDocumentValue(e) ==
    /\ 0 <= e.start
    /\ e.start < e.end
    /\ e.end <= Len(text)
    /\ e.value = Strip(Slice(text, e.start, e.end))

\* C22: every entity _detect_pii_in_chunk returns, and every token mapping
\* redact_text builds, has start and end as offsets into the whole document
\* and as value the document's text[start:end], trimmed: the text of a gap
\* between joined units is in the value once, as it is in the document.
ValueIsDocumentText ==
    /\ \A k \in 1..Len(all_entities) : WholeDocumentValue(all_entities[k])
    /\ Redacted =>
          \A k \in 1..Len(redaction.token_mappings) :
              WholeDocumentValue(redaction.token_mappings[k])

\* the entities chunk c alone reports
ChunkEntities(c) ==
    _detect_pii_in_chunk(DocChunks[c].chunk_text, DocChunks[c].char_start,
                         DocEncoding(c), predictions[c])

\* a redaction with a mapping for an entity that a chunk beginning inside the
\* document made of two units and the gap between them, and a mapping whose
\* span begins with a blank that its value has lost
ValueIsDocumentText_Witness ==
    /\ Redacted
    /\ \E k \in 1..Len(redaction.token_mappings) :
          LET m == redaction.token_mappings[k]
          IN  /\ Contains(m.value, <<" ">>)
              /\ \E c \in 1..Len(DocChunks) :
                    /\ DocChunks[c].char_start > 0
                    /\ \E j \in 1..Len(ChunkEntities(c)) :
                          /\ ChunkEntities(c)[j].start = m.start
                          /\ ChunkEntities(c)[j].end = m.end
                          /\ ChunkEntities(c)[j].value = m.value
    /\ \E k \in 1..Len(redaction.token_mappings) :
          LET m == redaction.token_mappings[k]
          IN  m.value # Slice(text, m.start, m.end)

\* the units of chunk c that lie in the span of entity e
UnitsOf(c, e) ==
    {u \in 1..Len(DocEncoding(c)) :
        /\ DocEncoding(c)[u].start # DocEncoding(c)[u].end
        /\ DocEncoding(c)[u].start + DocChunks[c].char_start >= e.start
        /\ DocEncoding(c)[u].end + DocChunks[c].char_start <= e.end}

\* C23: the score of an entity that _detect_pii_in_chunk returns is the
\* highest score among the units joined into it.
ScoreIsMaximum ==
    \A c \in 1..Len(DocChunks) :
        calls.i > c =>
            \A j \in 1..Len(ChunkEntities(c)) :
                LET e == ChunkEntities(c)[j]
                IN  /\ \A u \in UnitsOf(c, e) : predictions[c][u].score <= e.score
                    /\ \E u \in UnitsOf(c, e) : predictions[c][u].score = e.score

-----------------------------------------------------------------------------
(* Properties of the loop of _detect_pii_in_chunk (SpecAccum).             *)

\* the units of the chunk that are no special tokens, and those labeled
RealUnits ==
    {u \in 1..Len(calls.encoded) : calls.encoded[u].start # calls.encoded[u].end}

LabeledUnits == {u \in RealUnits : predictions[1][u].label # O}

Category(u) == ReplaceAll(predictions[1][u].label, <<"I", "-">>, <<>>)

\* the emitted entities whose span holds unit u
EntitiesHolding(u) ==
    {j \in 1..Len(all_entities) :
        /\ all_entities[j].start <= calls.encoded[u].start + calls.chunk_offset
        /\ calls.encoded[u].end + calls.chunk_offset <= all_entities[j].end}

\* unit u + 1 carries on the entity of unit u: same category, and it starts
\* at most one character after u ends
CarriesOn(u) ==
    /\ u + 1 \in LabeledUnits
    /\ Category(u + 1) = Category(u)
    /\ calls.encoded[u + 1].start <= calls.encoded[u].end + 1

\* C24: once the loop and the final flush are done, every labeled unit lies in
\* exactly one emitted entity, of its category; a unit labeled O lies in none;
\* a labeled unit and the next unit are in one entity exactly when the next
\* has the same category and starts at most one character later; and the
\* entities are in ascending order, none overlapping another.
AccumulatorMachine ==
    calls.pc = "done" =>
        /\ \A u \in LabeledUnits :
              /\ Cardinality(EntitiesHolding(u)) = 1
              /\ \A j \in EntitiesHolding(u) : all_entities[j].type = Category(u)
        /\ \A u \in RealUnits \ LabeledUnits : EntitiesHolding(u) = {}
        /\ \A u \in LabeledUnits :
              u + 1 \in RealUnits =>
                  (EntitiesHolding(u) = EntitiesHolding(u + 1) <=> CarriesOn(u))
        /\ \A j, k \in 1..Len(all_entities) :
              j < k => all_entities[j].end <= all_entities[k].start

\* three units of one category, the second a blank after the first and joined
\* to it, the third two blanks further and an entity of its own
AccumulatorMachine_Witness ==
    /\ calls.pc = "done"
    /\ \E u \in LabeledUnits :
          /\ {u + 1, u + 2} \subseteq LabeledUnits
          /\ Category(u) = Category(u + 1)
          /\ Category(u) = Category(u + 2)
          /\ calls.encoded[u + 1].start = calls.encoded[u].end + 1
          /\ calls.encoded[u + 2].start = calls.encoded[u + 1].end + 2
          /\ EntitiesHolding(u) = EntitiesHolding(u + 1)
          /\ EntitiesHolding(u + 1) # EntitiesHolding(u + 2)
          /\ calls.chunk_offset > 0

-----------------------------------------------------------------------------
(* Properties of the consistency pass (SpecCons).                          *)

\* the name entities among batch_entities, and the components of their values
NameEntities ==
    {k \in 1..Len(all_entities) : all_entities[k].type \in NameTypes}

ComponentsOf(k) ==
    {Split(all_entities[k].value)[n] : n \in 1..Len(Split(all_entities[k].value))}

\* the whole-word, case-insensitive occurrences of the components of entity k
WholeWordOccurrences(k) ==
    {sp \in (0..Len(text)) \X (0..Len(text)) :
        \E part \in ComponentsOf(k) :
            /\ sp[2] = sp[1] + Len(part)
            /\ PartMatchAt(text, part, sp[1])}

\* the span shares a character with an entity the detector reported
OverlapsExisting(sp) ==
    \E k \in 1..Len(all_entities) :
        sp[1] < all_entities[k].end /\ all_entities[k].start < sp[2]

\* the entities the pass has added to batch_entities
Synthesized ==
    {j \in 1..Len(calls.consistent_entities) : j > Len(all_entities)}

\* C25: the consistency pass keeps the detector's entities and adds, for every
\* whole-word case-insensitive occurrence of a name component that overlaps no
\* existing entity, exactly one entity with the matched text as value, the
\* category <original category>_CONSISTENT and confidence 0.9; an occurrence
\* that overlaps an existing entity gets none.
ConsistencyForUncovered ==
    calls.pc = "applied" =>
        /\ SubSeq(calls.consistent_entities, 1, Len(all_entities)) = all_entities
        /\ \A j \in Synthesized :
              LET e == calls.consistent_entities[j]
              IN  /\ ~OverlapsExisting(<<e.start, e.end>>)
                  /\ e.value = Slice(text, e.start, e.end)
                  /\ e.score = ConsistencyScore
                  /\ \E k \in NameEntities :
                        /\ <<e.start, e.end>> \in WholeWordOccurrences(k)
                        /\ e.type = all_entities[k].type \o _CONSISTENT
        /\ \A k \in NameEntities :
              \A sp \in WholeWordOccurrences(k) :
                  ~OverlapsExisting(sp) =>
                      Cardinality({j \in Synthesized :
                          /\ calls.consistent_entities[j].start = sp[1]
                          /\ calls.consistent_entities[j].end = sp[2]}) = 1

-----------------------------------------------------------------------------
(* Properties of the chunks (SpecSplit).                                   *)

\* _split_text_into_chunks has returned
SplitDone == calls.pc = "detect"

\* the tokens of the document that lie in a chunk
TokensIn(chunk) ==
    {t \in 1..Len(calls.offsets) :
        /\ calls.offsets[t].start >= chunk.char_start
        /\ calls.offsets[t].end <= chunk.char_start + Len(chunk.chunk_text)}

\* C26: the chunks come in the order of the text, chunk_text is the text at
\* char_offset, no chunk holds more than max_length tokens, a chunk shares
\* exactly overlap tokens with the chunk before it, and every token lies in a
\* chunk.
ChunksCoverText ==
    SplitDone =>
        /\ \A k \in 1..Len(calls.chunks) :
              LET chunk == calls.chunks[k]
              IN  /\ chunk.chunk_text
                        = Slice(text, chunk.char_start,
                                chunk.char_start + Len(chunk.chunk_text))
                  /\ Cardinality(TokensIn(chunk)) <= max_length
        /\ \A k \in 1..(Len(calls.chunks) - 1) :
              /\ calls.chunks[k].char_start < calls.chunks[k + 1].char_start
              /\ Cardinality(TokensIn(calls.chunks[k])
                                \cap TokensIn(calls.chunks[k + 1])) = overlap
        /\ \A t \in 1..Len(calls.offsets) :
              \E k \in 1..Len(calls.chunks) : t \in TokensIn(calls.chunks[k])

\* a text of three chunks, the first word after a blank
ChunksCoverText_Witness ==
    /\ SplitDone
    /\ Len(calls.chunks) >= 3
    /\ calls.chunks[1].char_start > 0

\* C27: a text of at most max_length tokens gives exactly one chunk, and its
\* char_offset is 0.
ShortTextOneChunk ==
    (SplitDone /\ Len(calls.offsets) <= max_length) =>
        /\ Len(calls.chunks) = 1
        /\ calls.chunks[1].char_start = 0

\* every token of the document
AllTokens == 1..Len(calls.offsets)

\* detect_pii has run _detect_pii_in_chunk on every chunk
DetectDone == calls.pc = "detect" /\ calls.i > Len(calls.chunks)

\* C28: once every chunk has been through the detector, every token of the
\* text was among the units the model labeled for some chunk.
EveryTokenAnalyzed == DetectDone => calls.analyzed = AllTokens

-----------------------------------------------------------------------------
(* Termination of the chunking loop (SpecSplitFair).                       *)

\* a step of the loop that is followed by another one moves i on by
\* max_length - overlap tokens, a number above zero
SplitAdvances ==
    (calls.pc = "split" /\ calls'.pc = "split" /\ calls'.i < Len(calls.offsets))
        => /\ calls'.i = calls.i + (max_length - overlap)
           /\ max_length - overlap > 0

\* C30: the chunking loop ends for every text; every iteration but the last
\* moves the start index on by chunk_size - overlap > 0 tokens, and there are
\* never more chunks than the text has tokens.
ChunkingTerminates ==
    /\ <>SplitDone
    /\ [][SplitAdvances]_vars
    /\ [](Len(calls.chunks) <= Len(calls.offsets))

\* the loop has ended after three iterations
ChunkingTerminates_Witness ==
    /\ SplitDone
    /\ Len(calls.chunks) = 3
    /\ Len(calls.offsets) = MaxTokens

-----------------------------------------------------------------------------
(* Properties of the threshold across calls (SpecMergeShort).              *)

\* the spans detect_pii returns for the detector output at threshold c
SpansAt(c) == SpanSet(detect_pii(all_entities, text, EmptyDict, c))

\* the tokens redact_text returns for the detector output at threshold c
TokenCountAt(c) == Len(redact_text(all_entities, text, c).token_mappings)

\* C29: for one text and one detector output, the spans detect_pii returns at
\* a threshold are among the spans it returns at any lower threshold, and
\* redact_text returns no more tokens than at the lower threshold.
ThresholdMonotone ==
    merged.step = "redact_text" =>
        \A c1 \in Thresholds :
            c1 <= merged.confidence_threshold =>
                /\ SpanSet(merged.entities) \subseteq SpansAt(c1)
                /\ Len(merged.first) <= TokenCountAt(c1)

\* a call that returns an entity, a lower threshold returning that one and
\* one more
ThresholdMonotone_Witness ==
    /\ merged.step = "redact_text"
    /\ merged.entities # <<>>
    /\ \E c1 \in Thresholds :
          /\ c1 < merged.confidence_threshold
          /\ SpanSet(merged.entities) # SpansAt(c1)
          /\ Len(merged.first) < TokenCountAt(c1)

=============================================================================
